---- MODULE Spec2Model ----
(***************************************************************************)
(* Model of the payments engine (src/src/transactions.rs) and of the loop  *)
(* of src/src/main.rs that feeds it.                                       *)
(*                                                                         *)
(* Amounts are rust_decimal values; the model uses integers, each unit     *)
(* standing for one fixed decimal step.  Decimal addition, subtraction,    *)
(* negation and comparison are exact on such values, so integer arithmetic *)
(* computes what the code computes (the 96-bit mantissa is far from the    *)
(* sums reachable here).                                                   *)
(*                                                                         *)
(* The two HashMaps of PaymentEngine are functions whose DOMAIN is the set *)
(* of keys present.                                                        *)
(***************************************************************************)
EXTENDS Integers, FiniteSets, Sequences, TLC

\* ---------------------------------------------------------------- bounds
MaxClient == 2
MaxTx == 3
MaxAmount == 2
MaxNeg == 1
MaxEngineTx == 2

Clients == 1..MaxClient
TxIds == 1..MaxTx
\* transaction ids used by direct callers of process_transaction
EngineTxIds == 1..MaxEngineTx
\* amounts a record of the input file may carry (0 is refused by the constructors)
RecordAmounts == 0..MaxAmount
\* amounts a caller of process_transaction may put in a Transaction value
RawAmounts == (0 - MaxNeg)..MaxAmount

VARIABLES
    accounts,       \* PaymentEngine.accounts
    transactions,   \* PaymentEngine.transactions
    cmd,            \* the Transaction given to the last process_transaction call
    result,         \* what that call returned
    pre,            \* the engine's two tables as they were before that call
    charged,        \* ids of the transactions whose chargeback returned Ok
    wasCharged,     \* the same set as it was before the last call
    wasFrozen,      \* clients whose account was frozen in some state before the last call
    snap,           \* the owner's balances before the dispute now being followed
    part,           \* part[c]: a fresh engine fed only the commands naming client c
    clash,          \* a deposit/withdrawal reused an id recorded for another client
    report,         \* what get_accounts returned to main, once the loop is over
    failed,         \* refused deposits/withdrawals whose id was not recorded since
    wasFailed       \* the same set as it was before the last call

vars == <<accounts, transactions, cmd, result, pre, charged, wasCharged, wasFrozen,
          snap, part, clash, report, failed, wasFailed>>

\* ------------------------------------------- TransactionValidationError
Ok == <<"Ok">>
InvalidAmount == <<"InvalidAmount">>
Duplicate(tx) == <<"Duplicate", tx>>
InsufficientFunds == <<"InsufficientFunds">>
MissingAccount == <<"MissingAccount">>
InvalidTransaction(tx) == <<"InvalidTransaction", tx>>
DisputeChargeback(tx) == <<"DisputeChargeback", tx>>
FrozenAccount == <<"FrozenAccount">>

\* ------------------------------------------------------------ Transaction
\* (the fields of a record are written in the order in which TLC keeps them,
\* tx before client before kind: a record value reached by two workers is then
\* never reordered by one while the other reads it)
TxDeposit(client, tx, amount) ==
    [tx |-> tx, client |-> client, amount |-> amount, kind |-> "Deposit",
     dispute |-> FALSE, chargeback |-> FALSE]

TxWithdrawal(client, tx, amount) ==
    [tx |-> tx, client |-> client, amount |-> amount, kind |-> "Withdrawal",
     dispute |-> FALSE, chargeback |-> FALSE]

new_deposit(client, tx, amount) ==
    IF amount <= 0
    THEN [ok |-> FALSE, err |-> InvalidAmount]
    ELSE [ok |-> TRUE, val |-> TxDeposit(client, tx, amount)]

new_withdrawal(client, tx, amount) ==
    IF amount <= 0
    THEN [ok |-> FALSE, err |-> InvalidAmount]
    ELSE [ok |-> TRUE, val |-> TxWithdrawal(client, tx, amount)]

new_dispute(client, tx) == [tx |-> tx, client |-> client, kind |-> "Dispute"]

new_resolve(client, tx) == [tx |-> tx, client |-> client, kind |-> "Resolve"]

new_chargeback(client, tx) == [tx |-> tx, client |-> client, kind |-> "Chargeback"]

\* ---------------------------------------------------------------- Account
Account_new(client) ==
    [client |-> client, available |-> 0, held |-> 0, frozen |-> FALSE]

total_funds(account) == account.available + account.held

\* ---------------------------------------------------------- PaymentEngine
EmptyMap == [k \in {} |-> 0]

PaymentEngine_new == [accounts |-> EmptyMap, transactions |-> EmptyMap]

\* HashMap::insert / entry().or_insert_with / get_mut followed by a store
Put(map, key, value) ==
    [k \in (DOMAIN map) \cup {key} |-> IF k = key THEN value ELSE map[k]]

\* what a handler leaves behind: the two tables and the returned Result
Ret(accs, txs, res) == [accounts |-> accs, transactions |-> txs, result |-> res]

\* HashMap::values(): every value once, in an order the hasher decides (the
\* RandomState of std seeds it per process), so every order is possible
values(map) ==
    LET n == Cardinality(DOMAIN map)
        orders == {p \in [1..n -> DOMAIN map] :
                      \A i, j \in 1..n : i /= j => p[i] /= p[j]}
    IN  {[i \in 1..n |-> map[p[i]]] : p \in orders}

\* one step of the stable sort: x goes behind the elements whose client is
\* not greater than its own
InsertByClient(sorted, x) ==
    LET k == Cardinality({i \in 1..Len(sorted) : sorted[i].client <= x.client})
    IN  SubSeq(sorted, 1, k) \o <<x>> \o SubSeq(sorted, k + 1, Len(sorted))

\* slice::sort_by_key(|acc| acc.client): stable, ascending by client
RECURSIVE sort_by_key(_)
sort_by_key(acc) ==
    IF acc = <<>> THEN <<>>
    ELSE InsertByClient(sort_by_key(SubSeq(acc, 1, Len(acc) - 1)), acc[Len(acc)])

\* variant: the vector is returned as collected, without the sort
get_accounts_unsorted(e) == values(e.accounts)

\* the vectors get_accounts may return: the values collected in some
\* iteration order, then sorted
get_accounts(e) == {sort_by_key(acc) : acc \in values(e.accounts)}

\* variant: the duplicate-id test is missing
process_deposit_nodup(e, deposit) ==
    LET tx == deposit.tx
        client == deposit.client
        amount == deposit.amount
        account == IF client \in DOMAIN e.accounts
                   THEN e.accounts[client]
                   ELSE Account_new(client)
        updated == [account EXCEPT !.available = @ + amount]
    IN  Ret(Put(e.accounts, client, updated),
            Put(e.transactions, tx, deposit),
            Ok)

\* variant: a frozen account refuses deposits too
process_deposit_frozen(e, deposit) ==
    LET tx == deposit.tx
        client == deposit.client
        amount == deposit.amount
    IN  IF tx \in DOMAIN e.transactions
        THEN Ret(e.accounts, e.transactions, Duplicate(tx))
        ELSE IF client \in DOMAIN e.accounts /\ e.accounts[client].frozen
        THEN Ret(e.accounts, e.transactions, FrozenAccount)
        ELSE LET account == IF client \in DOMAIN e.accounts
                            THEN e.accounts[client]
                            ELSE Account_new(client)
                 updated == [account EXCEPT !.available = @ + amount]
             IN  Ret(Put(e.accounts, client, updated),
                     Put(e.transactions, tx, deposit),
                     Ok)

process_deposit(e, deposit) ==
    LET tx == deposit.tx
        client == deposit.client
        amount == deposit.amount
    IN  IF tx \in DOMAIN e.transactions
        THEN Ret(e.accounts, e.transactions, Duplicate(tx))
        ELSE LET account == IF client \in DOMAIN e.accounts
                            THEN e.accounts[client]
                            ELSE Account_new(client)
                 updated == [account EXCEPT !.available = @ + amount]
             IN  Ret(Put(e.accounts, client, updated),
                     Put(e.transactions, tx, deposit),
                     Ok)

\* variant: the frozen test is missing
process_withdrawal_nofrozen(e, withdrawal) ==
    LET tx == withdrawal.tx
        client == withdrawal.client
        amount == withdrawal.amount
    IN  IF tx \in DOMAIN e.transactions
        THEN Ret(e.accounts, e.transactions, Duplicate(tx))
        ELSE IF client \notin DOMAIN e.accounts
        THEN Ret(e.accounts, e.transactions, MissingAccount)
        ELSE IF e.accounts[client].available < amount
        THEN Ret(e.accounts, e.transactions, InsufficientFunds)
        ELSE Ret(Put(e.accounts, client,
                     [e.accounts[client] EXCEPT !.available = @ - amount]),
                 Put(e.transactions, tx, withdrawal),
                 Ok)

\* variant: the duplicate-id test comes last
process_withdrawal_duplast(e, withdrawal) ==
    LET tx == withdrawal.tx
        client == withdrawal.client
        amount == withdrawal.amount
    IN  IF client \notin DOMAIN e.accounts
        THEN Ret(e.accounts, e.transactions, MissingAccount)
        ELSE IF e.accounts[client].frozen
        THEN Ret(e.accounts, e.transactions, FrozenAccount)
        ELSE IF e.accounts[client].available < amount
        THEN Ret(e.accounts, e.transactions, InsufficientFunds)
        ELSE IF tx \in DOMAIN e.transactions
        THEN Ret(e.accounts, e.transactions, Duplicate(tx))
        ELSE Ret(Put(e.accounts, client,
                     [e.accounts[client] EXCEPT !.available = @ - amount]),
                 Put(e.transactions, tx, withdrawal),
                 Ok)

\* variant: the account is fetched with entry().or_insert_with, as in the
\* deposit handler
process_withdrawal_creates(e, withdrawal) ==
    LET tx == withdrawal.tx
        client == withdrawal.client
        amount == withdrawal.amount
        account == IF client \in DOMAIN e.accounts
                   THEN e.accounts[client]
                   ELSE Account_new(client)
        accs == Put(e.accounts, client, account)
    IN  IF tx \in DOMAIN e.transactions
        THEN Ret(e.accounts, e.transactions, Duplicate(tx))
        ELSE IF account.frozen
        THEN Ret(accs, e.transactions, FrozenAccount)
        ELSE IF account.available < amount
        THEN Ret(accs, e.transactions, InsufficientFunds)
        ELSE Ret(Put(accs, client, [account EXCEPT !.available = @ - amount]),
                 Put(e.transactions, tx, withdrawal),
                 Ok)

\* variant: the funds test refuses a withdrawal of exactly the available funds
process_withdrawal_strict(e, withdrawal) ==
    LET tx == withdrawal.tx
        client == withdrawal.client
        amount == withdrawal.amount
    IN  IF tx \in DOMAIN e.transactions
        THEN Ret(e.accounts, e.transactions, Duplicate(tx))
        ELSE IF client \notin DOMAIN e.accounts
        THEN Ret(e.accounts, e.transactions, MissingAccount)
        ELSE IF e.accounts[client].frozen
        THEN Ret(e.accounts, e.transactions, FrozenAccount)
        ELSE IF e.accounts[client].available <= amount
        THEN Ret(e.accounts, e.transactions, InsufficientFunds)
        ELSE Ret(Put(e.accounts, client,
                     [e.accounts[client] EXCEPT !.available = @ - amount]),
                 Put(e.transactions, tx, withdrawal),
                 Ok)

\* variant: the transaction is inserted before the tests of the account
process_withdrawal_records(e, withdrawal) ==
    LET tx == withdrawal.tx
        client == withdrawal.client
        amount == withdrawal.amount
        txs == Put(e.transactions, tx, withdrawal)
    IN  IF tx \in DOMAIN e.transactions
        THEN Ret(e.accounts, e.transactions, Duplicate(tx))
        ELSE IF client \notin DOMAIN e.accounts
        THEN Ret(e.accounts, txs, MissingAccount)
        ELSE IF e.accounts[client].frozen
        THEN Ret(e.accounts, txs, FrozenAccount)
        ELSE IF e.accounts[client].available < amount
        THEN Ret(e.accounts, txs, InsufficientFunds)
        ELSE Ret(Put(e.accounts, client,
                     [e.accounts[client] EXCEPT !.available = @ - amount]),
                 txs,
                 Ok)

process_withdrawal(e, withdrawal) ==
    LET tx == withdrawal.tx
        client == withdrawal.client
        amount == withdrawal.amount
    IN  IF tx \in DOMAIN e.transactions
        THEN Ret(e.accounts, e.transactions, Duplicate(tx))
        ELSE IF client \notin DOMAIN e.accounts
        THEN Ret(e.accounts, e.transactions, MissingAccount)
        ELSE IF e.accounts[client].frozen
        THEN Ret(e.accounts, e.transactions, FrozenAccount)
        ELSE IF e.accounts[client].available < amount
        THEN Ret(e.accounts, e.transactions, InsufficientFunds)
        ELSE Ret(Put(e.accounts, client,
                     [e.accounts[client] EXCEPT !.available = @ - amount]),
                 Put(e.transactions, tx, withdrawal),
                 Ok)

\* variant: the client of the stored transaction is not compared
process_dispute_anyclient(e, tx, dispute_client) ==
    IF tx \notin DOMAIN e.transactions
    THEN Ret(e.accounts, e.transactions, InvalidTransaction(tx))
    ELSE
    LET t == e.transactions[tx] IN
    IF t.chargeback
    THEN Ret(e.accounts, e.transactions, DisputeChargeback(t.tx))
    ELSE IF t.dispute
    THEN Ret(e.accounts, e.transactions, Duplicate(t.tx))
    ELSE IF t.client \notin DOMAIN e.accounts
    THEN Ret(e.accounts, e.transactions, MissingAccount)
    ELSE
    LET account == e.accounts[t.client] IN
    IF t.kind = "Deposit"
    THEN Ret(Put(e.accounts, t.client,
                 [account EXCEPT !.available = @ - t.amount,
                                 !.held = @ + t.amount]),
             Put(e.transactions, tx, [t EXCEPT !.dispute = TRUE]),
             Ok)
    ELSE Ret(Put(e.accounts, t.client,
                 [account EXCEPT !.available = @ - (0 - t.amount),
                                 !.held = @ + (0 - t.amount)]),
             Put(e.transactions, tx, [t EXCEPT !.dispute = TRUE]),
             Ok)

\* variant: a deposit is disputed only when the available funds cover it
process_dispute_guarded(e, tx, dispute_client) ==
    IF tx \notin DOMAIN e.transactions
    THEN Ret(e.accounts, e.transactions, InvalidTransaction(tx))
    ELSE
    LET t == e.transactions[tx] IN
    IF t.client /= dispute_client
    THEN Ret(e.accounts, e.transactions, InvalidTransaction(t.tx))
    ELSE IF t.chargeback
    THEN Ret(e.accounts, e.transactions, DisputeChargeback(t.tx))
    ELSE IF t.dispute
    THEN Ret(e.accounts, e.transactions, Duplicate(t.tx))
    ELSE IF t.client \notin DOMAIN e.accounts
    THEN Ret(e.accounts, e.transactions, MissingAccount)
    ELSE
    LET account == e.accounts[t.client] IN
    IF t.kind = "Deposit"
    THEN IF account.available < t.amount
         THEN Ret(e.accounts, e.transactions, InsufficientFunds)
         ELSE Ret(Put(e.accounts, t.client,
                      [account EXCEPT !.available = @ - t.amount,
                                      !.held = @ + t.amount]),
                  Put(e.transactions, tx, [t EXCEPT !.dispute = TRUE]),
                  Ok)
    ELSE Ret(Put(e.accounts, t.client,
                 [account EXCEPT !.available = @ - (0 - t.amount),
                                 !.held = @ + (0 - t.amount)]),
             Put(e.transactions, tx, [t EXCEPT !.dispute = TRUE]),
             Ok)

\* variant: the under-dispute test comes before the charged-back test
process_dispute_swapped(e, tx, dispute_client) ==
    IF tx \notin DOMAIN e.transactions
    THEN Ret(e.accounts, e.transactions, InvalidTransaction(tx))
    ELSE
    LET t == e.transactions[tx] IN
    IF t.client /= dispute_client
    THEN Ret(e.accounts, e.transactions, InvalidTransaction(t.tx))
    ELSE IF t.dispute
    THEN Ret(e.accounts, e.transactions, Duplicate(t.tx))
    ELSE IF t.chargeback
    THEN Ret(e.accounts, e.transactions, DisputeChargeback(t.tx))
    ELSE IF t.client \notin DOMAIN e.accounts
    THEN Ret(e.accounts, e.transactions, MissingAccount)
    ELSE
    LET account == e.accounts[t.client] IN
    IF t.kind = "Deposit"
    THEN Ret(Put(e.accounts, t.client,
                 [account EXCEPT !.available = @ - t.amount,
                                 !.held = @ + t.amount]),
             Put(e.transactions, tx, [t EXCEPT !.dispute = TRUE]),
             Ok)
    ELSE Ret(Put(e.accounts, t.client,
                 [account EXCEPT !.available = @ - (0 - t.amount),
                                 !.held = @ + (0 - t.amount)]),
             Put(e.transactions, tx, [t EXCEPT !.dispute = TRUE]),
             Ok)

process_dispute(e, tx, dispute_client) ==
    IF tx \notin DOMAIN e.transactions
    THEN Ret(e.accounts, e.transactions, InvalidTransaction(tx))
    ELSE
    LET t == e.transactions[tx] IN
    IF t.client /= dispute_client
    THEN Ret(e.accounts, e.transactions, InvalidTransaction(t.tx))
    ELSE IF t.chargeback
    THEN Ret(e.accounts, e.transactions, DisputeChargeback(t.tx))
    ELSE IF t.dispute
    THEN Ret(e.accounts, e.transactions, Duplicate(t.tx))
    ELSE IF t.client \notin DOMAIN e.accounts
    THEN Ret(e.accounts, e.transactions, MissingAccount)
    ELSE
    LET account == e.accounts[t.client] IN
    IF t.kind = "Deposit"
    THEN Ret(Put(e.accounts, t.client,
                 [account EXCEPT !.available = @ - t.amount,
                                 !.held = @ + t.amount]),
             Put(e.transactions, tx, [t EXCEPT !.dispute = TRUE]),
             Ok)
    ELSE Ret(Put(e.accounts, t.client,
                 [account EXCEPT !.available = @ - (0 - t.amount),
                                 !.held = @ + (0 - t.amount)]),
             Put(e.transactions, tx, [t EXCEPT !.dispute = TRUE]),
             Ok)

\* variant: a withdrawal is resolved with the signs of a deposit
process_resolve_unsigned(e, tx, resolve_client) ==
    IF tx \notin DOMAIN e.transactions
    THEN Ret(e.accounts, e.transactions, InvalidTransaction(tx))
    ELSE
    LET t == e.transactions[tx] IN
    IF t.client /= resolve_client
    THEN Ret(e.accounts, e.transactions, InvalidTransaction(t.tx))
    ELSE IF ~t.dispute
    THEN Ret(e.accounts, e.transactions, InvalidTransaction(t.tx))
    ELSE IF t.chargeback
    THEN Ret(e.accounts, e.transactions, InvalidTransaction(t.tx))
    ELSE IF t.client \notin DOMAIN e.accounts
    THEN Ret(e.accounts, e.transactions, MissingAccount)
    ELSE
    LET account == e.accounts[t.client] IN
    Ret(Put(e.accounts, t.client,
            [account EXCEPT !.available = @ + t.amount,
                            !.held = @ - t.amount]),
        Put(e.transactions, tx, [t EXCEPT !.dispute = FALSE]),
        Ok)

\* variant: the client of the stored transaction is not compared
process_resolve_anyclient(e, tx, resolve_client) ==
    IF tx \notin DOMAIN e.transactions
    THEN Ret(e.accounts, e.transactions, InvalidTransaction(tx))
    ELSE
    LET t == e.transactions[tx] IN
    IF ~t.dispute
    THEN Ret(e.accounts, e.transactions, InvalidTransaction(t.tx))
    ELSE IF t.chargeback
    THEN Ret(e.accounts, e.transactions, InvalidTransaction(t.tx))
    ELSE IF t.client \notin DOMAIN e.accounts
    THEN Ret(e.accounts, e.transactions, MissingAccount)
    ELSE
    LET account == e.accounts[t.client] IN
    IF t.kind = "Deposit"
    THEN Ret(Put(e.accounts, t.client,
                 [account EXCEPT !.available = @ + t.amount,
                                 !.held = @ - t.amount]),
             Put(e.transactions, tx, [t EXCEPT !.dispute = FALSE]),
             Ok)
    ELSE Ret(Put(e.accounts, t.client,
                 [account EXCEPT !.available = @ + (0 - t.amount),
                                 !.held = @ - (0 - t.amount)]),
             Put(e.transactions, tx, [t EXCEPT !.dispute = FALSE]),
             Ok)

\* variant: the charged-back test is missing
process_resolve_charged(e, tx, resolve_client) ==
    IF tx \notin DOMAIN e.transactions
    THEN Ret(e.accounts, e.transactions, InvalidTransaction(tx))
    ELSE
    LET t == e.transactions[tx] IN
    IF t.client /= resolve_client
    THEN Ret(e.accounts, e.transactions, InvalidTransaction(t.tx))
    ELSE IF ~t.dispute
    THEN Ret(e.accounts, e.transactions, InvalidTransaction(t.tx))
    ELSE IF t.client \notin DOMAIN e.accounts
    THEN Ret(e.accounts, e.transactions, MissingAccount)
    ELSE
    LET account == e.accounts[t.client] IN
    IF t.kind = "Deposit"
    THEN Ret(Put(e.accounts, t.client,
                 [account EXCEPT !.available = @ + t.amount,
                                 !.held = @ - t.amount]),
             Put(e.transactions, tx, [t EXCEPT !.dispute = FALSE]),
             Ok)
    ELSE Ret(Put(e.accounts, t.client,
                 [account EXCEPT !.available = @ + (0 - t.amount),
                                 !.held = @ - (0 - t.amount)]),
             Put(e.transactions, tx, [t EXCEPT !.dispute = FALSE]),
             Ok)

\* variant: a resolve also lifts the freeze of the account
process_resolve_unfreeze(e, tx, resolve_client) ==
    IF tx \notin DOMAIN e.transactions
    THEN Ret(e.accounts, e.transactions, InvalidTransaction(tx))
    ELSE
    LET t == e.transactions[tx] IN
    IF t.client /= resolve_client
    THEN Ret(e.accounts, e.transactions, InvalidTransaction(t.tx))
    ELSE IF ~t.dispute
    THEN Ret(e.accounts, e.transactions, InvalidTransaction(t.tx))
    ELSE IF t.chargeback
    THEN Ret(e.accounts, e.transactions, InvalidTransaction(t.tx))
    ELSE IF t.client \notin DOMAIN e.accounts
    THEN Ret(e.accounts, e.transactions, MissingAccount)
    ELSE
    LET account == e.accounts[t.client] IN
    IF t.kind = "Deposit"
    THEN Ret(Put(e.accounts, t.client,
                 [account EXCEPT !.available = @ + t.amount,
                                 !.held = @ - t.amount,
                                 !.frozen = FALSE]),
             Put(e.transactions, tx, [t EXCEPT !.dispute = FALSE]),
             Ok)
    ELSE Ret(Put(e.accounts, t.client,
                 [account EXCEPT !.available = @ + (0 - t.amount),
                                 !.held = @ - (0 - t.amount),
                                 !.frozen = FALSE]),
             Put(e.transactions, tx, [t EXCEPT !.dispute = FALSE]),
             Ok)

process_resolve(e, tx, resolve_client) ==
    IF tx \notin DOMAIN e.transactions
    THEN Ret(e.accounts, e.transactions, InvalidTransaction(tx))
    ELSE
    LET t == e.transactions[tx] IN
    IF t.client /= resolve_client
    THEN Ret(e.accounts, e.transactions, InvalidTransaction(t.tx))
    ELSE IF ~t.dispute
    THEN Ret(e.accounts, e.transactions, InvalidTransaction(t.tx))
    ELSE IF t.chargeback
    THEN Ret(e.accounts, e.transactions, InvalidTransaction(t.tx))
    ELSE IF t.client \notin DOMAIN e.accounts
    THEN Ret(e.accounts, e.transactions, MissingAccount)
    ELSE
    LET account == e.accounts[t.client] IN
    IF t.kind = "Deposit"
    THEN Ret(Put(e.accounts, t.client,
                 [account EXCEPT !.available = @ + t.amount,
                                 !.held = @ - t.amount]),
             Put(e.transactions, tx, [t EXCEPT !.dispute = FALSE]),
             Ok)
    ELSE Ret(Put(e.accounts, t.client,
                 [account EXCEPT !.available = @ + (0 - t.amount),
                                 !.held = @ - (0 - t.amount)]),
             Put(e.transactions, tx, [t EXCEPT !.dispute = FALSE]),
             Ok)

\* variant: a withdrawal is charged back with the sign reversed, as in the
\* dispute and resolve handlers
process_chargeback_signed(e, tx, chargeback_client) ==
    IF tx \notin DOMAIN e.transactions
    THEN Ret(e.accounts, e.transactions, InvalidTransaction(tx))
    ELSE
    LET t == e.transactions[tx] IN
    IF t.client /= chargeback_client
    THEN Ret(e.accounts, e.transactions, InvalidTransaction(t.tx))
    ELSE IF t.chargeback
    THEN Ret(e.accounts, e.transactions, Duplicate(t.tx))
    ELSE IF ~t.dispute
    THEN Ret(e.accounts, e.transactions, InvalidTransaction(t.tx))
    ELSE IF t.client \notin DOMAIN e.accounts
    THEN Ret(e.accounts, e.transactions, MissingAccount)
    ELSE
    LET account == e.accounts[t.client]
        moved == IF t.kind = "Deposit" THEN t.amount ELSE 0 - t.amount
    IN
    Ret(Put(e.accounts, t.client,
            [account EXCEPT !.held = @ - moved, !.frozen = TRUE]),
        Put(e.transactions, tx, [t EXCEPT !.chargeback = TRUE]),
        Ok)

\* variant: the already-charged-back test is missing
process_chargeback_again(e, tx, chargeback_client) ==
    IF tx \notin DOMAIN e.transactions
    THEN Ret(e.accounts, e.transactions, InvalidTransaction(tx))
    ELSE
    LET t == e.transactions[tx] IN
    IF t.client /= chargeback_client
    THEN Ret(e.accounts, e.transactions, InvalidTransaction(t.tx))
    ELSE IF ~t.dispute
    THEN Ret(e.accounts, e.transactions, InvalidTransaction(t.tx))
    ELSE IF t.client \notin DOMAIN e.accounts
    THEN Ret(e.accounts, e.transactions, MissingAccount)
    ELSE
    LET account == e.accounts[t.client] IN
    Ret(Put(e.accounts, t.client,
            [account EXCEPT !.held = @ - t.amount, !.frozen = TRUE]),
        Put(e.transactions, tx, [t EXCEPT !.chargeback = TRUE]),
        Ok)

\* variant: the under-dispute test is missing
process_chargeback_undisputed(e, tx, chargeback_client) ==
    IF tx \notin DOMAIN e.transactions
    THEN Ret(e.accounts, e.transactions, InvalidTransaction(tx))
    ELSE
    LET t == e.transactions[tx] IN
    IF t.client /= chargeback_client
    THEN Ret(e.accounts, e.transactions, InvalidTransaction(t.tx))
    ELSE IF t.chargeback
    THEN Ret(e.accounts, e.transactions, Duplicate(t.tx))
    ELSE IF t.client \notin DOMAIN e.accounts
    THEN Ret(e.accounts, e.transactions, MissingAccount)
    ELSE
    LET account == e.accounts[t.client] IN
    Ret(Put(e.accounts, t.client,
            [account EXCEPT !.held = @ - t.amount, !.frozen = TRUE]),
        Put(e.transactions, tx, [t EXCEPT !.chargeback = TRUE]),
        Ok)

\* variant: the account is not frozen
process_chargeback_nofreeze(e, tx, chargeback_client) ==
    IF tx \notin DOMAIN e.transactions
    THEN Ret(e.accounts, e.transactions, InvalidTransaction(tx))
    ELSE
    LET t == e.transactions[tx] IN
    IF t.client /= chargeback_client
    THEN Ret(e.accounts, e.transactions, InvalidTransaction(t.tx))
    ELSE IF t.chargeback
    THEN Ret(e.accounts, e.transactions, Duplicate(t.tx))
    ELSE IF ~t.dispute
    THEN Ret(e.accounts, e.transactions, InvalidTransaction(t.tx))
    ELSE IF t.client \notin DOMAIN e.accounts
    THEN Ret(e.accounts, e.transactions, MissingAccount)
    ELSE
    LET account == e.accounts[t.client] IN
    Ret(Put(e.accounts, t.client,
            [account EXCEPT !.held = @ - t.amount]),
        Put(e.transactions, tx, [t EXCEPT !.chargeback = TRUE]),
        Ok)

process_chargeback(e, tx, chargeback_client) ==
    IF tx \notin DOMAIN e.transactions
    THEN Ret(e.accounts, e.transactions, InvalidTransaction(tx))
    ELSE
    LET t == e.transactions[tx] IN
    IF t.client /= chargeback_client
    THEN Ret(e.accounts, e.transactions, InvalidTransaction(t.tx))
    ELSE IF t.chargeback
    THEN Ret(e.accounts, e.transactions, Duplicate(t.tx))
    ELSE IF ~t.dispute
    THEN Ret(e.accounts, e.transactions, InvalidTransaction(t.tx))
    ELSE IF t.client \notin DOMAIN e.accounts
    THEN Ret(e.accounts, e.transactions, MissingAccount)
    ELSE
    LET account == e.accounts[t.client] IN
    \* the Deposit branch and the Withdrawal branch do the same
    Ret(Put(e.accounts, t.client,
            [account EXCEPT !.held = @ - t.amount, !.frozen = TRUE]),
        Put(e.transactions, tx, [t EXCEPT !.chargeback = TRUE]),
        Ok)

process_transaction(e, transaction) ==
    CASE transaction.kind = "Deposit" -> process_deposit(e, transaction)
      [] transaction.kind = "Withdrawal" -> process_withdrawal(e, transaction)
      [] transaction.kind = "Dispute" ->
            process_dispute(e, transaction.tx, transaction.client)
      [] transaction.kind = "Resolve" ->
            process_resolve(e, transaction.tx, transaction.client)
      [] transaction.kind = "Chargeback" ->
            process_chargeback(e, transaction.tx, transaction.client)

\* ------------------------------------------------------------ bookkeeping
\* (history of the run, kept beside the engine so that properties of a call
\* can be stated on the state it leaves)
NoCmd == [tx |-> 0, client |-> 0, kind |-> "None"]

NoSnap == [tx |-> 0, client |-> 0, available |-> 0, held |-> 0, stage |-> "none"]

NoReport == [done |-> FALSE, rows |-> <<>>, before |-> PaymentEngine_new]

Engine == [accounts |-> accounts, transactions |-> transactions]

IsMoney(t) == t.kind \in {"Deposit", "Withdrawal"}

NextSnap(t, res) ==
    IF t.kind = "Dispute" /\ res = Ok /\ t.client \in DOMAIN accounts
    THEN [tx |-> t.tx, client |-> t.client,
          available |-> accounts[t.client].available,
          held |-> accounts[t.client].held, stage |-> "disputed"]
    ELSE IF t.kind = "Resolve" /\ res = Ok
            /\ snap.stage = "disputed" /\ snap.tx = t.tx /\ snap.client = t.client
    THEN [snap EXCEPT !.stage = "resolved"]
    ELSE NoSnap

\* one call of payment_engine.process_transaction(transaction)
Call(t) ==
    LET r == process_transaction(Engine, t)
    IN  /\ accounts' = r.accounts
        /\ transactions' = r.transactions
        /\ cmd' = t
        /\ result' = r.result
        /\ pre' = Engine
        /\ charged' = IF t.kind = "Chargeback" /\ r.result = Ok
                      THEN charged \cup {t.tx} ELSE charged
        /\ wasCharged' = charged
        /\ wasFrozen' = wasFrozen \cup {c \in DOMAIN accounts : accounts[c].frozen}
        /\ snap' = NextSnap(t, r.result)

Apply(t) == Call(t) /\ UNCHANGED <<part, clash, report, failed, wasFailed>>

\* the same call, with the command also given to the engine of its client's
\* partition.  A run is followed up to the first clash of transaction ids
\* between clients: from there on the partitions process another ledger.
ApplyBoth(t) ==
    LET p == process_transaction(part[t.client], t)
    IN  /\ ~clash
        /\ Call(t)
        /\ part' = [part EXCEPT ![t.client] =
                        [accounts |-> p.accounts, transactions |-> p.transactions]]
        /\ clash' = (clash \/ (/\ IsMoney(t)
                               /\ t.tx \in DOMAIN transactions
                               /\ transactions[t.tx].client /= t.client))
        /\ UNCHANGED <<report, failed, wasFailed>>

\* the same call, with the ids of the refused deposits and withdrawals kept:
\* an id enters when a deposit or withdrawal carrying it is refused for another
\* reason than Duplicate, is marked when a dispute names it, and leaves when a
\* deposit or withdrawal carrying it returns Ok
FailedIds(f) == {x.tx : x \in f}

NextFailed(t, res) ==
    IF IsMoney(t) /\ res = Ok
    THEN {x \in failed : x.tx /= t.tx}
    ELSE IF IsMoney(t) /\ res /= Duplicate(t.tx) /\ t.tx \notin FailedIds(failed)
    THEN failed \cup {[tx |-> t.tx, disputed |-> FALSE]}
    ELSE IF t.kind = "Dispute"
    THEN {IF x.tx = t.tx THEN [x EXCEPT !.disputed = TRUE] ELSE x : x \in failed}
    ELSE failed

ApplyKeep(t) ==
    /\ Call(t)
    /\ failed' = NextFailed(t, process_transaction(Engine, t).result)
    /\ wasFailed' = failed
    /\ UNCHANGED <<part, clash, report>>

Init ==
    /\ accounts = PaymentEngine_new.accounts
    /\ transactions = PaymentEngine_new.transactions
    /\ cmd = NoCmd
    /\ result = Ok
    /\ pre = PaymentEngine_new
    /\ charged = {}
    /\ wasCharged = {}
    /\ wasFrozen = {}
    /\ snap = NoSnap
    /\ part = [c \in Clients |-> PaymentEngine_new]
    /\ clash = FALSE
    /\ report = NoReport
    /\ failed = {}
    /\ wasFailed = {}

\* ---- the loop of main: a record is converted by try_from and, when the
\* conversion succeeds, handed to process_transaction; a record whose
\* conversion fails is logged and changes nothing (no step).
Deposit(client, tx, amount) ==
    /\ new_deposit(client, tx, amount).ok
    /\ Apply(new_deposit(client, tx, amount).val)

Withdrawal(client, tx, amount) ==
    /\ new_withdrawal(client, tx, amount).ok
    /\ Apply(new_withdrawal(client, tx, amount).val)

Dispute(client, tx) == Apply(new_dispute(client, tx))

Resolve(client, tx) == Apply(new_resolve(client, tx))

Chargeback(client, tx) == Apply(new_chargeback(client, tx))

Next ==
    \/ \E c \in Clients, tx \in TxIds, a \in RecordAmounts : Deposit(c, tx, a)
    \/ \E c \in Clients, tx \in TxIds, a \in RecordAmounts : Withdrawal(c, tx, a)
    \/ \E c \in Clients, tx \in TxIds : Dispute(c, tx)
    \/ \E c \in Clients, tx \in TxIds : Resolve(c, tx)
    \/ \E c \in Clients, tx \in TxIds : Chargeback(c, tx)

Spec == Init /\ [][Next]_vars

\* ---- process_transaction called with Transaction values built directly
\* (the enum's variants are public): the amount is whatever the caller wrote.
EngineDeposit(client, tx, amount) == Apply(TxDeposit(client, tx, amount))

EngineWithdrawal(client, tx, amount) == Apply(TxWithdrawal(client, tx, amount))

NextEngine ==
    \/ \E c \in Clients, tx \in EngineTxIds, a \in RawAmounts : EngineDeposit(c, tx, a)
    \/ \E c \in Clients, tx \in EngineTxIds, a \in RawAmounts : EngineWithdrawal(c, tx, a)
    \/ \E c \in Clients, tx \in EngineTxIds : Dispute(c, tx)
    \/ \E c \in Clients, tx \in EngineTxIds : Resolve(c, tx)
    \/ \E c \in Clients, tx \in EngineTxIds : Chargeback(c, tx)

SpecEngine == Init /\ [][NextEngine]_vars

\* ---- the loop of main run beside one fresh engine per client, each fed the
\* commands that name its client, in the same order.
PartDeposit(client, tx, amount) ==
    /\ new_deposit(client, tx, amount).ok
    /\ ApplyBoth(new_deposit(client, tx, amount).val)

PartWithdrawal(client, tx, amount) ==
    /\ new_withdrawal(client, tx, amount).ok
    /\ ApplyBoth(new_withdrawal(client, tx, amount).val)

PartDispute(client, tx) == ApplyBoth(new_dispute(client, tx))

PartResolve(client, tx) == ApplyBoth(new_resolve(client, tx))

PartChargeback(client, tx) == ApplyBoth(new_chargeback(client, tx))

NextPart ==
    \/ \E c \in Clients, tx \in TxIds, a \in RecordAmounts : PartDeposit(c, tx, a)
    \/ \E c \in Clients, tx \in TxIds, a \in RecordAmounts : PartWithdrawal(c, tx, a)
    \/ \E c \in Clients, tx \in TxIds : PartDispute(c, tx)
    \/ \E c \in Clients, tx \in TxIds : PartResolve(c, tx)
    \/ \E c \in Clients, tx \in TxIds : PartChargeback(c, tx)

SpecPart == Init /\ [][NextPart]_vars

\* ---- main to its end: the loop, then one call of get_accounts whose vector
\* goes to accounts_info_as_csv; no record is processed after it.
GetAccounts ==
    /\ ~report.done
    /\ \E rows \in get_accounts(Engine) :
          report' = [done |-> TRUE, rows |-> rows, before |-> Engine]
    /\ UNCHANGED <<accounts, transactions, cmd, result, pre, charged, wasCharged,
                   wasFrozen, snap, part, clash, failed, wasFailed>>

NextReport ==
    \/ (~report.done /\ Next)
    \/ GetAccounts

SpecReport == Init /\ [][NextReport]_vars

\* ---- the loop of main, the ids of the refused deposits and withdrawals kept
KeepDeposit(client, tx, amount) ==
    /\ new_deposit(client, tx, amount).ok
    /\ ApplyKeep(new_deposit(client, tx, amount).val)

KeepWithdrawal(client, tx, amount) ==
    /\ new_withdrawal(client, tx, amount).ok
    /\ ApplyKeep(new_withdrawal(client, tx, amount).val)

KeepDispute(client, tx) == ApplyKeep(new_dispute(client, tx))

KeepResolve(client, tx) == ApplyKeep(new_resolve(client, tx))

KeepChargeback(client, tx) == ApplyKeep(new_chargeback(client, tx))

NextKeep ==
    \/ \E c \in Clients, tx \in TxIds, a \in RecordAmounts : KeepDeposit(c, tx, a)
    \/ \E c \in Clients, tx \in TxIds, a \in RecordAmounts : KeepWithdrawal(c, tx, a)
    \/ \E c \in Clients, tx \in TxIds : KeepDispute(c, tx)
    \/ \E c \in Clients, tx \in TxIds : KeepResolve(c, tx)
    \/ \E c \in Clients, tx \in TxIds : KeepChargeback(c, tx)

SpecKeep == Init /\ [][NextKeep]_vars

\* ================================================================ claims
\* helpers for stating the claims
RECURSIVE SumAmounts(_, _)
SumAmounts(txs, ids) ==
    IF ids = {} THEN 0
    ELSE LET x == CHOOSE y \in ids : TRUE
         IN  txs[x].amount + SumAmounts(txs, ids \ {x})

RecordedOf(txs, c, kind) ==
    {x \in DOMAIN txs : txs[x].client = c /\ txs[x].kind = kind}

ChargedBackOf(txs, c) ==
    {x \in DOMAIN txs : txs[x].client = c /\ txs[x].chargeback}

Unchanged == accounts = pre.accounts /\ transactions = pre.transactions

Recorded == cmd.tx \in DOMAIN pre.transactions

IsFollowUp == cmd.kind \in {"Dispute", "Resolve", "Chargeback"}

\* C1: for every client, available + held is the sum of its recorded
\* deposits minus the sum of its recorded withdrawals minus the sum of its
\* charged-back transactions (a client without account has none of them), and
\* a dispute or resolve call leaves available + held of every account as it was.
C1_DoubleEntry ==
    /\ \A c \in Clients :
          LET expected ==
                SumAmounts(transactions, RecordedOf(transactions, c, "Deposit"))
                - SumAmounts(transactions, RecordedOf(transactions, c, "Withdrawal"))
                - SumAmounts(transactions, ChargedBackOf(transactions, c))
          IN  IF c \in DOMAIN accounts
              THEN total_funds(accounts[c]) = expected
              ELSE /\ expected = 0
                   /\ RecordedOf(transactions, c, "Deposit") = {}
                   /\ RecordedOf(transactions, c, "Withdrawal") = {}
    /\ cmd.kind \in {"Dispute", "Resolve"} =>
          /\ DOMAIN accounts = DOMAIN pre.accounts
          /\ \A c \in DOMAIN accounts :
                total_funds(accounts[c]) = total_funds(pre.accounts[c])

\* a withdrawal has just been charged back on an account that also holds a
\* deposit
C1_Witness ==
    /\ cmd.kind = "Chargeback" /\ result = Ok
    /\ transactions[cmd.tx].kind = "Withdrawal"
    /\ RecordedOf(transactions, cmd.client, "Deposit") /= {}

\* C2: a deposit or withdrawal whose transaction id is already recorded fails
\* and leaves the accounts and the history as they were.
C2_DuplicateIdMutatesNothing ==
    (IsMoney(cmd) /\ Recorded) => (result /= Ok /\ Unchanged)

\* a withdrawal reuses the id of a deposit recorded for another client
C2_Witness ==
    /\ cmd.kind = "Withdrawal" /\ Recorded
    /\ pre.transactions[cmd.tx].kind = "Deposit"
    /\ pre.transactions[cmd.tx].client /= cmd.client
    /\ cmd.client \in DOMAIN pre.accounts

\* C3: a successful dispute immediately followed by a successful resolve of
\* the same transaction leaves the owner's available and held as they were
\* before the dispute, and the transaction not under dispute.
C3_DisputeResolveRoundTrip ==
    snap.stage = "resolved" =>
        /\ accounts[snap.client].available = snap.available
        /\ accounts[snap.client].held = snap.held
        /\ ~transactions[snap.tx].dispute

\* the round trip has just been completed on a withdrawal whose account had
\* other funds held
C3_Witness ==
    /\ snap.stage = "resolved"
    /\ transactions[snap.tx].kind = "Withdrawal"
    /\ snap.held /= 0

\* C4 as stated: after a successful chargeback of tx, every later chargeback
\* of tx fails with Duplicate(tx) and changes nothing.
C4_AnyLaterChargebackIsDuplicate ==
    (cmd.kind = "Chargeback" /\ cmd.tx \in wasCharged) =>
        (result = Duplicate(cmd.tx) /\ Unchanged)

\* C4 amended: after a successful chargeback of tx, every later chargeback of
\* tx fails and changes nothing; it fails with Duplicate(tx) when it names the
\* client the transaction belongs to and with InvalidTransaction(tx) otherwise.
C4_ChargebackAtMostOnce ==
    (cmd.kind = "Chargeback" /\ cmd.tx \in wasCharged) =>
        /\ Unchanged
        /\ result = IF pre.transactions[cmd.tx].client = cmd.client
                    THEN Duplicate(cmd.tx)
                    ELSE InvalidTransaction(cmd.tx)

\* the owner asks again for the chargeback of a charged-back transaction
C4_Witness ==
    /\ cmd.kind = "Chargeback" /\ cmd.tx \in wasCharged
    /\ pre.transactions[cmd.tx].client = cmd.client

\* C5: on an account that has been frozen, a withdrawal fails and leaves the
\* account as it was, and a deposit with an unused id succeeds and adds its
\* amount to available.
C5_FrozenBlocksWithdrawalsOnly ==
    cmd.client \in wasFrozen =>
        /\ cmd.kind = "Withdrawal" =>
              /\ result /= Ok
              /\ cmd.client \in DOMAIN accounts
              /\ accounts[cmd.client] = pre.accounts[cmd.client]
        /\ (cmd.kind = "Deposit" /\ ~Recorded) =>
              /\ result = Ok
              /\ accounts[cmd.client].available
                    = pre.accounts[cmd.client].available + cmd.amount

\* a withdrawal with an unused id that the available funds cover is refused
\* on a frozen account
C5_Witness ==
    /\ cmd.kind = "Withdrawal" /\ cmd.client \in wasFrozen /\ ~Recorded
    /\ pre.accounts[cmd.client].available >= cmd.amount
    /\ result = FrozenAccount

\* C6: a dispute, resolve or chargeback of a recorded transaction that names
\* another client than the one stored in its entry fails with
\* InvalidTransaction(tx) and changes neither table.
C6_ClientMismatchRejected ==
    (IsFollowUp /\ Recorded /\ pre.transactions[cmd.tx].client /= cmd.client) =>
        (result = InvalidTransaction(cmd.tx) /\ Unchanged)

\* another client asks for the chargeback of a transaction under dispute
C6_Witness ==
    /\ cmd.kind = "Chargeback" /\ Recorded
    /\ pre.transactions[cmd.tx].client /= cmd.client
    /\ pre.transactions[cmd.tx].dispute
    /\ ~pre.transactions[cmd.tx].chargeback

\* C7 as stated: a withdrawal that reuses a recorded id returns MissingAccount
\* when its client has no account, else FrozenAccount when the account is
\* frozen, else InsufficientFunds when amount > available, else Duplicate(tx).
C7_DuplicateCheckedLast ==
    (cmd.kind = "Withdrawal" /\ Recorded) =>
        result = IF cmd.client \notin DOMAIN pre.accounts THEN MissingAccount
                 ELSE IF pre.accounts[cmd.client].frozen THEN FrozenAccount
                 ELSE IF cmd.amount > pre.accounts[cmd.client].available
                 THEN InsufficientFunds
                 ELSE Duplicate(cmd.tx)

\* C7 amended: the error of a withdrawal follows the priority Duplicate(tx),
\* MissingAccount, FrozenAccount, InsufficientFunds; a withdrawal that
\* violates none of the four succeeds.
C7_DuplicateCheckedFirst ==
    cmd.kind = "Withdrawal" =>
        result = IF Recorded THEN Duplicate(cmd.tx)
                 ELSE IF cmd.client \notin DOMAIN pre.accounts THEN MissingAccount
                 ELSE IF pre.accounts[cmd.client].frozen THEN FrozenAccount
                 ELSE IF cmd.amount > pre.accounts[cmd.client].available
                 THEN InsufficientFunds
                 ELSE Ok

\* a withdrawal reuses a recorded id on a frozen account whose available
\* funds it exceeds
C7_Witness ==
    /\ cmd.kind = "Withdrawal" /\ Recorded
    /\ cmd.client \in DOMAIN pre.accounts
    /\ pre.accounts[cmd.client].frozen
    /\ cmd.amount > pre.accounts[cmd.client].available
    /\ result = Duplicate(cmd.tx)

\* C8: process_transaction given a deposit or withdrawal whose amount is not
\* positive returns InvalidAmount and changes neither table, so every entry
\* of the history has a positive amount.
C8_EngineRejectsNonPositive ==
    /\ (IsMoney(cmd) /\ cmd.amount <= 0) => (result = InvalidAmount /\ Unchanged)
    /\ \A x \in DOMAIN transactions : transactions[x].amount > 0

\* what the snapshot shows of client c: existence, available, held, frozen
AccountView(accs, c) ==
    IF c \in DOMAIN accs
    THEN <<TRUE, accs[c].available, accs[c].held, accs[c].frozen>>
    ELSE <<FALSE, 0, 0, FALSE>>

\* C9 as stated: for every client, the account the full engine holds equals
\* the account held by a fresh engine fed only the commands of that client.
C9_PartitionAgrees ==
    \A c \in Clients : AccountView(accounts, c) = AccountView(part[c].accounts, c)

\* C9 amended: the same, for the command sequences in which no deposit or
\* withdrawal reuses a transaction id recorded for another client.
C9_PartitionAgreesOnUniqueIds ==
    ~clash =>
        \A c \in Clients : AccountView(accounts, c) = AccountView(part[c].accounts, c)

\* without any clash of ids, a chargeback has just frozen one of two accounts
\* and the other client holds a recorded transaction
C9_Witness ==
    /\ ~clash
    /\ cmd.kind = "Chargeback" /\ result = Ok
    /\ \E d \in DOMAIN accounts :
          /\ d /= cmd.client
          /\ RecordedOf(transactions, d, "Withdrawal") /= {}

\* C10 as stated: no command but a deposit adds an account, and a withdrawal
\* naming a client without account fails with MissingAccount.
C10_NoAccountMeansMissingAccount ==
    /\ cmd.kind /= "Deposit" => DOMAIN accounts = DOMAIN pre.accounts
    /\ (cmd.kind = "Withdrawal" /\ cmd.client \notin DOMAIN pre.accounts) =>
          (result = MissingAccount /\ cmd.client \notin DOMAIN accounts)

\* C10 amended: the set of accounts changes only by a successful deposit,
\* which adds the account of its client; a withdrawal naming a client without
\* account creates none and fails, with Duplicate(tx) when its id is already
\* recorded and with MissingAccount otherwise.
C10_OnlyDepositCreatesAccount ==
    /\ DOMAIN accounts /= DOMAIN pre.accounts =>
          /\ cmd.kind = "Deposit" /\ result = Ok
          /\ DOMAIN accounts = DOMAIN pre.accounts \cup {cmd.client}
    /\ (cmd.kind = "Withdrawal" /\ cmd.client \notin DOMAIN pre.accounts) =>
          /\ cmd.client \notin DOMAIN accounts
          /\ result = IF Recorded THEN Duplicate(cmd.tx) ELSE MissingAccount

\* a withdrawal with an unused id names a client without account while
\* another client has one
C10_Witness ==
    /\ cmd.kind = "Withdrawal" /\ ~Recorded
    /\ cmd.client \notin DOMAIN pre.accounts
    /\ DOMAIN pre.accounts /= {}
    /\ result = MissingAccount

\* the status of a history entry, read from its two flags
Status(t) ==
    IF t.chargeback THEN "ChargedBack"
    ELSE IF t.dispute THEN "Disputed"
    ELSE "Normal"

\* C11: an entry is recorded Normal; its status changes only by a successful
\* dispute (Normal to Disputed), resolve (Disputed to Normal) or chargeback
\* (Disputed to ChargedBack) of that entry, and each such success makes its
\* step; once an entry is charged back, no dispute, resolve or chargeback of
\* it succeeds and the entry stays as it is.
C11_StatusMachine ==
    /\ \A x \in (DOMAIN transactions) \ (DOMAIN pre.transactions) :
          Status(transactions[x]) = "Normal"
    /\ \A x \in DOMAIN pre.transactions :
          /\ x \in DOMAIN transactions
          /\ LET a == Status(pre.transactions[x])
                 b == Status(transactions[x])
                 step == <<a, cmd.kind, b>>
             IN  IF IsFollowUp /\ cmd.tx = x /\ result = Ok
                 THEN step \in {<<"Normal", "Dispute", "Disputed">>,
                                <<"Disputed", "Resolve", "Normal">>,
                                <<"Disputed", "Chargeback", "ChargedBack">>}
                 ELSE a = b
    /\ \A x \in wasCharged :
          /\ x \in DOMAIN transactions
          /\ transactions[x] = pre.transactions[x]
          /\ Status(transactions[x]) = "ChargedBack"
          /\ (IsFollowUp /\ cmd.tx = x) => result /= Ok

\* the owner disputes a transaction that was charged back earlier
C11_Witness ==
    /\ cmd.kind = "Dispute" /\ cmd.tx \in wasCharged
    /\ pre.transactions[cmd.tx].client = cmd.client
    /\ result = DisputeChargeback(cmd.tx)

\* the entry named by the last command, before the call
PreEntry == pre.transactions[cmd.tx]

\* the account of the last command's client, before and after the call
PreAccount == pre.accounts[cmd.client]

PostAccount == accounts[cmd.client]

\* the last command names the client its recorded transaction belongs to
ByOwner == Recorded /\ PreEntry.client = cmd.client

\* C12: a dispute by the owner of an entry that is neither under dispute nor
\* charged back succeeds whatever the balances are; a successful dispute of a
\* deposit takes amount from available and adds it to held, one of a
\* withdrawal adds amount to available and takes it from held; the entry
\* becomes under dispute and nothing else changes.
C12_DisputeMovesAmount ==
    /\ (cmd.kind = "Dispute" /\ ByOwner /\ ~PreEntry.dispute /\ ~PreEntry.chargeback)
          => result = Ok
    /\ (cmd.kind = "Dispute" /\ result = Ok) =>
          /\ ByOwner
          /\ transactions = Put(pre.transactions, cmd.tx,
                                [PreEntry EXCEPT !.dispute = TRUE])
          /\ accounts = Put(pre.accounts, cmd.client,
                IF PreEntry.kind = "Deposit"
                THEN [PreAccount EXCEPT !.available = @ - PreEntry.amount,
                                        !.held = @ + PreEntry.amount]
                ELSE [PreAccount EXCEPT !.available = @ + PreEntry.amount,
                                        !.held = @ - PreEntry.amount])

\* a deposit whose funds were withdrawn is disputed: available goes negative
C12_Witness ==
    /\ cmd.kind = "Dispute" /\ result = Ok
    /\ PreEntry.kind = "Deposit"
    /\ PostAccount.available < 0

\* C13: a successful chargeback, of a deposit or of a withdrawal, takes the
\* entry's amount from held, leaves available as it was, freezes the account
\* and marks the entry charged back; nothing else changes.
C13_ChargebackEffect ==
    (cmd.kind = "Chargeback" /\ result = Ok) =>
        /\ ByOwner
        /\ transactions = Put(pre.transactions, cmd.tx,
                              [PreEntry EXCEPT !.chargeback = TRUE])
        /\ accounts = Put(pre.accounts, cmd.client,
                          [PreAccount EXCEPT !.held = @ - PreEntry.amount,
                                             !.frozen = TRUE])
        /\ PostAccount.available = PreAccount.available

\* a disputed withdrawal is charged back on an account not yet frozen
C13_Witness ==
    /\ cmd.kind = "Chargeback" /\ result = Ok
    /\ PreEntry.kind = "Withdrawal"
    /\ ~PreAccount.frozen

\* C14: a withdrawal with an unused id succeeds exactly when the account of
\* its client exists, is not frozen and has available >= amount; on success
\* available decreases by amount, nothing else changes in the accounts, a
\* Withdrawal entry with both flags false is recorded, and available is not
\* negative.
C14_WithdrawalSucceedsIff ==
    (cmd.kind = "Withdrawal" /\ ~Recorded) =>
        /\ result = Ok <=>
              /\ cmd.client \in DOMAIN pre.accounts
              /\ ~PreAccount.frozen
              /\ PreAccount.available >= cmd.amount
        /\ result = Ok =>
              /\ accounts = Put(pre.accounts, cmd.client,
                    [PreAccount EXCEPT !.available = @ - cmd.amount])
              /\ PostAccount.held = PreAccount.held
              /\ PostAccount.frozen = PreAccount.frozen
              /\ transactions = Put(pre.transactions, cmd.tx,
                    [tx |-> cmd.tx, client |-> cmd.client,
                     amount |-> cmd.amount, kind |-> "Withdrawal",
                     dispute |-> FALSE, chargeback |-> FALSE])
              /\ PostAccount.available >= 0

\* a withdrawal of exactly the available funds succeeds
C14_Witness ==
    /\ cmd.kind = "Withdrawal" /\ ~Recorded /\ result = Ok
    /\ PreAccount.available = cmd.amount
    /\ PostAccount.available = 0

\* C15: a deposit with an unused id and a positive amount succeeds whether
\* the account exists or not and whether it is frozen or not; the account,
\* created with zero balances and not frozen when absent, gets amount added
\* to available and nothing else changed, and a Deposit entry with both
\* flags false is recorded.
C15_DepositAlwaysSucceeds ==
    (cmd.kind = "Deposit" /\ ~Recorded /\ cmd.amount > 0) =>
        /\ result = Ok
        /\ LET base == IF cmd.client \in DOMAIN pre.accounts
                       THEN PreAccount
                       ELSE [client |-> cmd.client, available |-> 0, held |-> 0,
                             frozen |-> FALSE]
           IN  accounts = Put(pre.accounts, cmd.client,
                              [base EXCEPT !.available = @ + cmd.amount])
        /\ transactions = Put(pre.transactions, cmd.tx,
              [tx |-> cmd.tx, client |-> cmd.client,
               amount |-> cmd.amount, kind |-> "Deposit",
               dispute |-> FALSE, chargeback |-> FALSE])

\* a deposit with an unused id is accepted on a frozen account
C15_Witness ==
    /\ cmd.kind = "Deposit" /\ ~Recorded /\ result = Ok
    /\ cmd.client \in DOMAIN pre.accounts
    /\ PreAccount.frozen
    /\ PostAccount.frozen

\* C16: a dispute fails with InvalidTransaction(tx) when tx is not recorded,
\* else with InvalidTransaction(tx) when it names another client, else with
\* DisputeChargeback(tx) when the entry is charged back, else with
\* Duplicate(tx) when the entry is under dispute; each failure leaves the
\* accounts and the history as they were.
C16_DisputeFailureOrder ==
    cmd.kind = "Dispute" =>
        /\ ~Recorded => result = InvalidTransaction(cmd.tx)
        /\ (Recorded /\ ~ByOwner) => result = InvalidTransaction(cmd.tx)
        /\ (ByOwner /\ PreEntry.chargeback) => result = DisputeChargeback(cmd.tx)
        /\ (ByOwner /\ ~PreEntry.chargeback /\ PreEntry.dispute)
              => result = Duplicate(cmd.tx)
        /\ (~ByOwner \/ PreEntry.chargeback \/ PreEntry.dispute)
              => (result /= Ok /\ Unchanged)

\* the owner disputes an entry that is charged back and still flagged under
\* dispute
C16_Witness ==
    /\ cmd.kind = "Dispute" /\ ByOwner
    /\ PreEntry.chargeback /\ PreEntry.dispute
    /\ result = DisputeChargeback(cmd.tx)
    /\ PreAccount.held /= 0

\* C17: a resolve or chargeback of a transaction that is not recorded, or is
\* recorded and not under dispute, fails with InvalidTransaction(tx); a
\* resolve of a charged-back transaction fails with InvalidTransaction(tx);
\* each of these failures leaves the accounts and the history as they were.
C17_ResolveChargebackRejected ==
    /\ (cmd.kind \in {"Resolve", "Chargeback"}
          /\ (~Recorded \/ ~PreEntry.dispute))
          => (result = InvalidTransaction(cmd.tx) /\ Unchanged)
    /\ (cmd.kind = "Resolve" /\ (cmd.tx \in wasCharged
                                 \/ (Recorded /\ PreEntry.chargeback)))
          => (result = InvalidTransaction(cmd.tx) /\ Unchanged)

\* the owner asks to resolve a transaction that was charged back
C17_Witness ==
    /\ cmd.kind = "Resolve" /\ ByOwner
    /\ cmd.tx \in wasCharged
    /\ PreEntry.dispute

\* C18: an account that was frozen in some earlier state exists and is
\* frozen now.
C18_FrozenIsMonotone ==
    \A c \in wasFrozen : c \in DOMAIN accounts /\ accounts[c].frozen

\* a dispute of another transaction has just been resolved on an account
\* frozen earlier
C18_Witness ==
    /\ cmd.kind = "Resolve" /\ result = Ok
    /\ cmd.client \in wasFrozen
    /\ PostAccount.frozen

\* C19: an account is frozen exactly when some recorded transaction of its
\* client is charged back.
C19_FrozenIffChargedBack ==
    \A c \in DOMAIN accounts :
        accounts[c].frozen <=> ChargedBackOf(transactions, c) /= {}

\* one account is frozen while another, with a transaction under dispute,
\* is not
C19_Witness ==
    \E c, d \in DOMAIN accounts :
        /\ accounts[c].frozen
        /\ ~accounts[d].frozen
        /\ \E x \in DOMAIN transactions :
              transactions[x].client = d /\ transactions[x].dispute

\* C20: an entry of the history is never removed or replaced: its kind,
\* client, id and amount stay as recorded; its two flags change only by a
\* dispute, resolve or chargeback command naming that entry.
C20_HistoryEntriesStable ==
    \A x \in DOMAIN pre.transactions :
        /\ x \in DOMAIN transactions
        /\ transactions[x].kind = pre.transactions[x].kind
        /\ transactions[x].client = pre.transactions[x].client
        /\ transactions[x].tx = pre.transactions[x].tx
        /\ transactions[x].amount = pre.transactions[x].amount
        /\ transactions[x] /= pre.transactions[x] => (IsFollowUp /\ cmd.tx = x)

\* a deposit of another client and another amount reuses the id of a
\* recorded withdrawal
C20_Witness ==
    /\ cmd.kind = "Deposit" /\ Recorded
    /\ PreEntry.kind = "Withdrawal"
    /\ PreEntry.client /= cmd.client
    /\ PreEntry.amount /= cmd.amount

\* C21: accounts are never deleted, and the vector get_accounts returns holds
\* exactly one entry per account of the engine, each equal to that account, in
\* strictly ascending order of client whatever the order of creation; the call
\* leaves the accounts and the history as they were.
C21_SnapshotSortedComplete ==
    /\ DOMAIN pre.accounts \subseteq DOMAIN accounts
    /\ report.done =>
          /\ Len(report.rows) = Cardinality(DOMAIN accounts)
          /\ \A c \in DOMAIN accounts :
                \E i \in 1..Len(report.rows) : report.rows[i] = accounts[c]
          /\ \A i, j \in 1..Len(report.rows) :
                i < j => report.rows[i].client < report.rows[j].client
          /\ Engine = report.before

\* the snapshot was taken of two accounts, that of client 2 created first
C21_Witness ==
    /\ report.done
    /\ DOMAIN report.before.accounts = {1, 2}
    /\ DOMAIN pre.accounts = {2}
    /\ accounts[1] /= Account_new(1)

\* C22: a call of process_transaction that returns an error, whichever it is,
\* leaves the accounts and the history exactly as they were before the call.
C22_FailureMutatesNothing ==
    (cmd /= NoCmd /\ result /= Ok) => Unchanged

\* a withdrawal has just been refused for insufficient funds on an account
\* that holds disputed funds, while another transaction is charged back
C22_Witness ==
    /\ cmd.kind = "Withdrawal" /\ result = InsufficientFunds
    /\ accounts[cmd.client].held /= 0
    /\ charged /= {}

\* C23: a deposit or withdrawal that returns an error records nothing; the id
\* of one refused for another reason than Duplicate stays out of the history
\* until a deposit or withdrawal carrying it succeeds, and until then a deposit
\* carrying it returns Ok and a dispute of it fails with InvalidTransaction.
C23_FailedIdStaysFree ==
    /\ (IsMoney(cmd) /\ result /= Ok) => transactions = pre.transactions
    /\ FailedIds(failed) \cap DOMAIN transactions = {}
    /\ (cmd.kind = "Deposit" /\ cmd.tx \in FailedIds(wasFailed)) =>
          (result = Ok /\ transactions[cmd.tx] = cmd)
    /\ (cmd.kind = "Dispute" /\ cmd.tx \in FailedIds(wasFailed)) =>
          (result = InvalidTransaction(cmd.tx) /\ cmd.tx \in FailedIds(failed))

\* a deposit has just reused the id of a refused withdrawal that a dispute
\* named in between, for a client whose account existed
C23_Witness ==
    /\ cmd.kind = "Deposit" /\ result = Ok
    /\ [tx |-> cmd.tx, disputed |-> TRUE] \in wasFailed
    /\ cmd.client \in DOMAIN pre.accounts

\* the transactions of a kind recorded for c that are under dispute and not
\* charged back
ActiveOf(txs, c, kind) ==
    {x \in RecordedOf(txs, c, kind) : txs[x].dispute /\ ~txs[x].chargeback}

\* C24 as stated: in every state the held funds of an account are the sum of
\* the amounts of its deposits under dispute and not charged back, minus the
\* sum of the amounts of its withdrawals under dispute and not charged back
\* (so a chargeback puts held back to what it was before the dispute, and
\* held is 0 when the client has no active dispute).
C24_HeldIsActiveDisputes ==
    \A c \in DOMAIN accounts :
        accounts[c].held =
            SumAmounts(transactions, ActiveOf(transactions, c, "Deposit"))
            - SumAmounts(transactions, ActiveOf(transactions, c, "Withdrawal"))

\* C25: in every state the client of every recorded transaction has an
\* account, and a dispute, resolve or chargeback never returns MissingAccount.
C25_RecordedClientHasAccount ==
    /\ \A x \in DOMAIN transactions : transactions[x].client \in DOMAIN accounts
    /\ IsFollowUp => result /= MissingAccount

\* a chargeback has just passed its account test for a recorded withdrawal,
\* while some client has no account
C25_Witness ==
    /\ cmd.kind = "Chargeback" /\ result = Ok
    /\ transactions[cmd.tx].kind = "Withdrawal"
    /\ DOMAIN accounts /= Clients

\* C26: in every state a recorded transaction that is charged back is also
\* under dispute, and every chargeback returns what the order "recorded,
\* same client, under dispute, not charged back, account exists" returns.
C26_ChargedBackImpliesDisputed ==
    /\ \A x \in DOMAIN transactions :
          transactions[x].chargeback => transactions[x].dispute
    /\ cmd.kind = "Chargeback" =>
          result = IF ~Recorded THEN InvalidTransaction(cmd.tx)
                   ELSE IF PreEntry.client /= cmd.client
                   THEN InvalidTransaction(cmd.tx)
                   ELSE IF ~PreEntry.dispute THEN InvalidTransaction(cmd.tx)
                   ELSE IF PreEntry.chargeback THEN Duplicate(cmd.tx)
                   ELSE IF PreEntry.client \notin DOMAIN pre.accounts
                   THEN MissingAccount
                   ELSE Ok

\* the owner has just asked again for the chargeback of a charged-back
\* withdrawal
C26_Witness ==
    /\ cmd.kind = "Chargeback" /\ Recorded
    /\ pre.transactions[cmd.tx].client = cmd.client
    /\ pre.transactions[cmd.tx].chargeback
    /\ pre.transactions[cmd.tx].kind = "Withdrawal"

\* C27: a call naming client d leaves every other client as it was: none of
\* their accounts is created, removed or changed in available, held or frozen,
\* whether the call returns Ok or an error.
C27_OtherClientsUntouched ==
    \A c \in Clients :
        c /= cmd.client =>
            /\ (c \in DOMAIN accounts) = (c \in DOMAIN pre.accounts)
            /\ c \in DOMAIN accounts => accounts[c] = pre.accounts[c]

\* a chargeback has just frozen the account of its client while another
\* client's account holds disputed funds and is not frozen
C27_Witness ==
    /\ cmd.kind = "Chargeback" /\ result = Ok
    /\ \E c \in DOMAIN accounts :
          c /= cmd.client /\ accounts[c].held /= 0 /\ ~accounts[c].frozen

====
